---- MODULE Spec2Model ----
(***************************************************************************)
(* Model of core-foundation/src/data.rs: the CFData and CFMutableData      *)
(* wrappers over Core Foundation's reference-counted byte buffers.         *)
(*                                                                         *)
(* The heap of foreign objects (objs) is what the CFData* functions of the *)
(* foreign runtime act on; the handles (hs) are the Rust values CFData(p)  *)
(* and CFMutableData(p).  Every public function of data.rs is one action.  *)
(*                                                                         *)
(* Lengths cross the boundary through to_CFIndex() and `as usize`; both    *)
(* keep the value of every length in 0..CFIndex::MAX (to_CFIndex panics    *)
(* above it), which covers every length explored here.                     *)
(***************************************************************************)
EXTENDS Integers, Sequences, FiniteSets

\* ---------------------------------------------------------------- bounds
MaxObjs == 1        \* foreign objects ever created
MaxHandles == 3     \* Rust handle values ever created
MaxLen == 2         \* longest buffer content explored
MaxSlice == MaxLen - 1   \* longest slice passed to from_buffer / extend_from_slice
Caps == {0, MaxLen - 1}  \* maximum capacities requested: unbounded, or a bound

\* The code never inspects a byte, so two values stand for all 256: zero (what
\* set_len fills with) and a non-zero one.
Byte == {0, 1}
Poison == Cardinality(Byte)  \* not a byte: what a read past the end of the buffer yields
Objs == 1..MaxObjs
Handles == 1..MaxHandles

RECURSIVE SeqsUpTo(_)
SeqsUpTo(n) == IF n = 0 THEN {<<>>}
               ELSE LET S == SeqsUpTo(n - 1)
                    IN S \cup {Append(s, b) : s \in {t \in S : Len(t) = n - 1}, b \in Byte}
Slices == SeqsUpTo(MaxSlice)

RECURSIVE Fill(_, _)
Fill(n, v) == IF n <= 0 THEN <<>> ELSE Append(Fill(n - 1, v), v)

VARIABLES objs, hs, last, aborted
vars == <<objs, hs, last, aborted>>

\* ------------------------------------------------------ foreign runtime
FreeObj == [st |-> "free", mutable |-> FALSE, cap |-> 0, data |-> <<>>, rc |-> 0]

\* The next unused object / handle slot (0 when the pool is exhausted).
NewObj == LET n == Cardinality({o \in Objs : objs[o].st # "free"})
          IN IF n < MaxObjs THEN n + 1 ELSE 0
NewHandle == LET n == Cardinality({i \in Handles : hs[i].st # "Unborn"})
             IN IF n < MaxHandles THEN n + 1 ELSE 0

\* create_buffer: a fixed buffer seeded with a copy of bytes, one retain held.
CFDataCreate(heap, o, bytes) ==
    [heap EXCEPT ![o] = [st |-> "alloc", mutable |-> FALSE, cap |-> 0,
                         data |-> bytes, rc |-> 1]]

\* create_growable_buffer: empty, capacity bound cap (0 = unbounded), one retain held.
CFDataCreateMutable(heap, o, capacity) ==
    [heap EXCEPT ![o] = [st |-> "alloc", mutable |-> TRUE, cap |-> capacity,
                         data |-> <<>>, rc |-> 1]]

CFDataGetLength(heap, o) == Len(heap[o].data)

\* The byte pointers are modelled by the object they point into.
CFDataGetBytePtr(heap, o) == o
CFDataGetMutableBytePtr(heap, o) == o

\* A capacity-bounded buffer cannot hold newLength bytes.
CapacityExceeded(heap, o, newLength) ==
    heap[o].cap > 0 /\ newLength > heap[o].cap

\* The outcome of a foreign call that can end the process.
Ok(heap) == [fatal |-> FALSE, heap |-> heap]
Fatal(heap) == [fatal |-> TRUE, heap |-> heap]

\* replace_range: splice bytes over the range [location, location + length);
\* exceeding the capacity bound is fatal.
CFDataReplaceBytes(heap, o, location, length, bytes) ==
    LET d == heap[o].data
    IN IF CapacityExceeded(heap, o, Len(d) - length + Len(bytes))
       THEN Fatal(heap)
       ELSE Ok([heap EXCEPT ![o].data =
                SubSeq(d, 1, location) \o bytes \o SubSeq(d, location + length + 1, Len(d))])

\* set_length: truncate, or extend with zero bytes; exceeding the capacity
\* bound is fatal.
CFDataSetLength(heap, o, n) ==
    LET d == heap[o].data
    IN IF CapacityExceeded(heap, o, n)
       THEN Fatal(heap)
       ELSE Ok([heap EXCEPT ![o].data =
                IF n <= Len(d) THEN SubSeq(d, 1, n) ELSE d \o Fill(n - Len(d), 0)])

CFRetain(heap, o) == [heap EXCEPT ![o].rc = @ + 1]

\* The object is deallocated when its last retain is released; a release of a
\* deallocated object drives the count below zero.
CFRelease(heap, o) ==
    IF heap[o].rc = 1
    THEN [heap EXCEPT ![o] = [st |-> "dead", mutable |-> FALSE, cap |-> 0,
                              data |-> <<>>, rc |-> 0]]
    ELSE [heap EXCEPT ![o].rc = @ - 1]

\* ------------------------------------------------------------- wrappers
NoHandle == [kind |-> "none", st |-> "Unborn", ref |-> 0]

\* TCFType::wrap_under_create_rule: takes over the retain the create call returned.
wrap_under_create_rule(kind, o) == [kind |-> kind, st |-> "Live", ref |-> o]

\* slice::from_raw_parts(ptr, n): n bytes starting at ptr.
from_raw_parts(heap, ptr, n) ==
    LET d == heap[ptr].data
    IN IF n <= Len(d) THEN SubSeq(d, 1, n) ELSE d \o Fill(n - Len(d), Poison)

\* mem::forget(self): the value is gone and its destructor never runs.
mem_forget(handles, h) == [handles EXCEPT ![h].st = "Consumed", ![h].ref = 0]

Live(h, kind) == hs[h].st = "Live" /\ hs[h].kind = kind

Init ==
    /\ objs = [o \in Objs |-> FreeObj]
    /\ hs = [i \in Handles |-> NoHandle]
    /\ last = "init"
    /\ aborted = FALSE

\* from_buffer passing a length one short of the slice's.
from_buffer_short(buffer) ==
    /\ ~aborted /\ NewObj # 0 /\ NewHandle # 0
    /\ objs' = CFDataCreate(objs, NewObj, SubSeq(buffer, 1, Len(buffer) - 1))
    /\ hs' = [hs EXCEPT ![NewHandle] = wrap_under_create_rule("CFData", NewObj)]
    /\ last' = "from_buffer"
    /\ UNCHANGED aborted

\* CFData::from_buffer
from_buffer(buffer) ==
    /\ ~aborted /\ NewObj # 0 /\ NewHandle # 0
    /\ objs' = CFDataCreate(objs, NewObj, buffer)
    /\ hs' = [hs EXCEPT ![NewHandle] = wrap_under_create_rule("CFData", NewObj)]
    /\ last' = "from_buffer"
    /\ UNCHANGED aborted

\* CFMutableData::with_maximum_capacity, entered as the call `entry`.
create_mutable(maximum_capacity, entry) ==
    /\ ~aborted /\ NewObj # 0 /\ NewHandle # 0
    /\ objs' = CFDataCreateMutable(objs, NewObj, maximum_capacity)
    /\ hs' = [hs EXCEPT ![NewHandle] = wrap_under_create_rule("CFMutableData", NewObj)]
    /\ last' = entry
    /\ UNCHANGED aborted

\* with_maximum_capacity that does not pass its argument on.
with_maximum_capacity_unbounded(maximum_capacity) ==
    create_mutable(0, "with_maximum_capacity")

with_maximum_capacity(maximum_capacity) ==
    create_mutable(maximum_capacity, "with_maximum_capacity")

\* CFMutableData::new
new == create_mutable(0, "new")

\* CFData::len
CFData_len(heap, h) == CFDataGetLength(heap, hs[h].ref)

\* CFData::bytes
CFData_bytes(heap, h) ==
    from_raw_parts(heap, CFDataGetBytePtr(heap, hs[h].ref), CFData_len(heap, h))

\* CFMutableData::len
CFMutableData_len(heap, h) == CFDataGetLength(heap, hs[h].ref)

\* CFMutableData::bytes
CFMutableData_bytes(heap, h) ==
    from_raw_parts(heap, CFDataGetBytePtr(heap, hs[h].ref), CFMutableData_len(heap, h))

\* bytes_mut with a window one byte longer than the buffer.
bytes_mut_overlong(heap, h) ==
    from_raw_parts(heap, CFDataGetMutableBytePtr(heap, hs[h].ref),
                   CFMutableData_len(heap, h) + 1)

\* CFMutableData::bytes_mut
bytes_mut(heap, h) ==
    from_raw_parts(heap, CFDataGetMutableBytePtr(heap, hs[h].ref), CFMutableData_len(heap, h))

\* The read calls return the value of the function of the same name above;
\* they call only CFDataGetLength and CFDataGet(Mutable)BytePtr.

\* A call of CFData::len.
call_CFData_len(h) ==
    /\ ~aborted /\ Live(h, "CFData")
    /\ last' = "len"
    /\ UNCHANGED <<objs, hs, aborted>>

\* A call of CFData::bytes (or a Deref of a CFData).
call_CFData_bytes(h) ==
    /\ ~aborted /\ Live(h, "CFData")
    /\ last' = "bytes"
    /\ UNCHANGED <<objs, hs, aborted>>

\* A call of CFMutableData::len.
call_CFMutableData_len(h) ==
    /\ ~aborted /\ Live(h, "CFMutableData")
    /\ last' = "len"
    /\ UNCHANGED <<objs, hs, aborted>>

\* A call of CFMutableData::bytes (or a Deref of a CFMutableData).
call_CFMutableData_bytes(h) ==
    /\ ~aborted /\ Live(h, "CFMutableData")
    /\ last' = "bytes"
    /\ UNCHANGED <<objs, hs, aborted>>

\* A call of CFMutableData::bytes_mut (or a DerefMut of a CFMutableData).
call_bytes_mut(h) ==
    /\ ~aborted /\ Live(h, "CFMutableData")
    /\ last' = "bytes_mut"
    /\ UNCHANGED <<objs, hs, aborted>>

\* extend_from_slice splicing at offset 0 instead of at the end.
extend_from_slice_at_start(heap, h, bytes) ==
    CFDataReplaceBytes(heap, hs[h].ref, 0, 0, bytes)

\* CFMutableData::extend_from_slice: the outcome of the call on heap.
CFMutableData_extend_from_slice(heap, h, bytes) ==
    CFDataReplaceBytes(heap, hs[h].ref, CFMutableData_len(heap, h), 0, bytes)

\* A call of CFMutableData::extend_from_slice.
extend_from_slice(h, bytes) ==
    /\ ~aborted /\ Live(h, "CFMutableData")
    /\ LET r == CFMutableData_extend_from_slice(objs, h, bytes)
       IN /\ Len(r.heap[hs[h].ref].data) <= MaxLen
          /\ objs' = r.heap
          /\ aborted' = r.fatal
    /\ last' = "extend_from_slice"
    /\ UNCHANGED hs

\* set_len that never shortens the buffer.
set_len_grow_only(heap, h, n) ==
    CFDataSetLength(heap, hs[h].ref,
                    IF n < CFMutableData_len(heap, h) THEN CFMutableData_len(heap, h) ELSE n)

\* CFMutableData::set_len: the outcome of the call on heap.
CFMutableData_set_len(heap, h, n) == CFDataSetLength(heap, hs[h].ref, n)

\* A call of CFMutableData::set_len.
set_len(h, n) ==
    /\ ~aborted /\ Live(h, "CFMutableData")
    /\ LET r == CFMutableData_set_len(objs, h, n)
       IN /\ objs' = r.heap
          /\ aborted' = r.fatal
    /\ last' = "set_len"
    /\ UNCHANGED hs

\* into_immutable without mem::forget: self is dropped when the call returns.
into_immutable_dropping(h) ==
    /\ ~aborted /\ Live(h, "CFMutableData") /\ NewHandle # 0
    /\ LET reference == hs[h].ref
       IN /\ hs' = [hs EXCEPT
                      ![h] = [kind |-> "none", st |-> "Dropped", ref |-> 0],
                      ![NewHandle] = [kind |-> "CFData", st |-> "Live", ref |-> reference]]
          /\ objs' = CFRelease(objs, reference)
    /\ last' = "into_immutable"
    /\ UNCHANGED aborted

\* into_immutable wrapping the reference under the get rule (one more retain).
into_immutable_retaining(h) ==
    /\ ~aborted /\ Live(h, "CFMutableData") /\ NewHandle # 0
    /\ LET reference == hs[h].ref
       IN /\ hs' = [mem_forget(hs, h) EXCEPT
                      ![NewHandle] = [kind |-> "CFData", st |-> "Live", ref |-> reference]]
          /\ objs' = CFRetain(objs, reference)
    /\ last' = "into_immutable"
    /\ UNCHANGED aborted

\* into_immutable borrowing self instead of consuming it.
into_immutable_borrowing(h) ==
    /\ ~aborted /\ Live(h, "CFMutableData") /\ NewHandle # 0
    /\ hs' = [hs EXCEPT ![NewHandle] = [kind |-> "CFData", st |-> "Live", ref |-> hs[h].ref]]
    /\ objs' = CFRetain(objs, hs[h].ref)
    /\ last' = "into_immutable"
    /\ UNCHANGED aborted

\* CFMutableData::into_immutable
into_immutable(h) ==
    /\ ~aborted /\ Live(h, "CFMutableData") /\ NewHandle # 0
    /\ LET reference == hs[h].ref
       IN hs' = [mem_forget(hs, h) EXCEPT
                    ![NewHandle] = [kind |-> "CFData", st |-> "Live", ref |-> reference]]
    /\ last' = "into_immutable"
    /\ UNCHANGED <<objs, aborted>>

\* Drop (declare_TCFType!): the end of a live handle's lifetime.
drop(h) ==
    /\ ~aborted /\ hs[h].st = "Live"
    /\ objs' = CFRelease(objs, hs[h].ref)
    /\ hs' = [hs EXCEPT ![h] = [kind |-> "none", st |-> "Dropped", ref |-> 0]]
    /\ last' = "drop"
    /\ UNCHANGED aborted

\* Clone (impl_TCFType!): wrap_under_get_rule retains and wraps the same reference.
clone(h, kind) ==
    /\ ~aborted /\ Live(h, kind) /\ NewHandle # 0
    /\ objs' = CFRetain(objs, hs[h].ref)
    /\ hs' = [hs EXCEPT ![NewHandle] = [kind |-> kind, st |-> "Live", ref |-> hs[h].ref]]
    /\ last' = "clone"
    /\ UNCHANGED aborted

\* impl_TCFType!(CFData, ...)
CFData_clone(h) == clone(h, "CFData")

\* impl_TCFType!(CFMutableData, ...)
CFMutableData_clone(h) == clone(h, "CFMutableData")

Next ==
    \/ \E b \in Slices : from_buffer(b)
    \/ new
    \/ \E n \in Caps : with_maximum_capacity(n)
    \/ \E h \in Handles : call_CFData_len(h)
    \/ \E h \in Handles : call_CFData_bytes(h)
    \/ \E h \in Handles : call_CFMutableData_len(h)
    \/ \E h \in Handles : call_CFMutableData_bytes(h)
    \/ \E h \in Handles : call_bytes_mut(h)
    \/ \E h \in Handles, b \in Slices : extend_from_slice(h, b)
    \/ \E h \in Handles, n \in 0..MaxLen : set_len(h, n)
    \/ \E h \in Handles : into_immutable(h)
    \/ \E h \in Handles : drop(h)
    \/ \E h \in Handles : CFData_clone(h)
    \/ \E h \in Handles : CFMutableData_clone(h)

Spec == Init /\ [][Next]_vars

\* ---------------------------------------------------------------- claims
LiveHandles(o) == {i \in Handles : hs[i].st = "Live" /\ hs[i].ref = o}
Zeros(n) == Fill(n, 0)
Content(heap, o) == heap[o].data

\* C1: a live CFMutableData never coexists with another live handle, mutable
\* or immutable, that refers to the same foreign object.
C1_ExclusiveMutableView ==
    \A h \in Handles :
        Live(h, "CFMutableData") => LiveHandles(hs[h].ref) = {h}

\* The retain count of an object is the number of live handles over it.
C2_CountIsLiveHandles ==
    \A o \in Objs :
        /\ objs[o].rc = Cardinality(LiveHandles(o))
        /\ objs[o].rc >= 0
        /\ (objs[o].st = "alloc") = (objs[o].rc > 0)
\* What one step does to the retain counts.
C2_ReleaseOncePerHandle ==
    /\ \A h \in Handles :
          hs[h].st = "Live" /\ hs'[h].st = "Dropped" =>
              /\ objs'[hs[h].ref].rc = objs[hs[h].ref].rc - 1
              /\ \A o \in Objs \ {hs[h].ref} : objs'[o] = objs[o]
    /\ \A h \in Handles :
          hs[h].st = "Live" /\ hs'[h].st = "Consumed" => objs' = objs
    /\ \A o \in Objs :
          objs'[o].rc > objs[o].rc =>
              \/ last' = "clone" /\ objs'[o].rc = objs[o].rc + 1
              \/ objs[o].st = "free" /\ objs'[o].rc = 1
    /\ \A o \in Objs :
          objs'[o].rc < objs[o].rc => last' = "drop"
\* C2: every live handle owns exactly one retain of its object, so the retain
\* count is the number of live handles over the object: never below zero, and
\* zero (object deallocated) once all of them are dropped.  A drop releases
\* exactly once, into_immutable releases nothing on the source handle, and the
\* only retain ever issued is the one of a duplication: constructors,
\* mutations, conversions and drops issue none.
C2_RetainDiscipline == []C2_CountIsLiveHandles /\ [][C2_ReleaseOncePerHandle]_vars
C2_Witness ==
    /\ last = "drop"
    /\ \E o \in Objs : objs[o].st = "dead"
    /\ \E h \in Handles : hs[h].st = "Consumed"
    /\ \A h \in Handles : hs[h].st # "Live"

\* The step that takes handle h from Live to Consumed.
C3_Transfer ==
    \A h \in Handles :
        hs[h].st = "Live" /\ hs'[h].st = "Consumed" =>
            /\ objs' = objs
            /\ \E r \in Handles \ {h} :
                  /\ hs[r].st = "Unborn"
                  /\ hs'[r] = [kind |-> "CFData", st |-> "Live", ref |-> hs[h].ref]
                  /\ \A i \in Handles \ {h, r} : hs'[i] = hs[i]
\* C3: the step that consumes a live CFMutableData is a pure ownership
\* transfer: the heap of foreign objects (retain counts, bytes, lengths,
\* the set of allocated objects) is unchanged, and exactly one new handle
\* appears, a live CFData referring to the identical object.
C3_PureOwnershipTransfer == [][C3_Transfer]_vars
C3_Witness ==
    /\ last = "into_immutable"
    /\ \E h \in Handles : Live(h, "CFData") /\ Len(Content(objs, hs[h].ref)) > 0
                          /\ objs[hs[h].ref].mutable

\* The handle states one step may connect.
C4_Step ==
    /\ \A h \in Handles :
          hs[h].st = "Unborn" /\ hs'[h].st # "Unborn" => hs'[h].st = "Live"
    /\ \A h \in Handles :
          hs[h].st = "Live" /\ hs'[h].st = "Consumed" =>
              /\ last' = "into_immutable"
              /\ hs[h].kind = "CFMutableData"
              /\ \E r \in Handles : hs[r].st = "Unborn" /\ hs'[r].st = "Live"
                                    /\ hs'[r].kind = "CFData"
    /\ last' = "into_immutable" =>
          \E h \in Handles : hs[h].st = "Live" /\ hs'[h].st = "Consumed"
    /\ \A h \in Handles :
          hs[h].st \in {"Consumed", "Dropped"} => hs'[h] = hs[h]
\* No call is possible through a handle that is Consumed.
C4_NoCallThroughConsumed ==
    \A h \in Handles :
        hs[h].st = "Consumed" =>
            ~ENABLED (\/ call_CFMutableData_len(h) \/ call_CFMutableData_bytes(h)
                      \/ call_bytes_mut(h)
                      \/ \E b \in Slices : extend_from_slice(h, b)
                      \/ \E n \in 0..MaxLen : set_len(h, n)
                      \/ into_immutable(h) \/ drop(h) \/ CFMutableData_clone(h))
\* C4: a CFMutableData is Live from its construction, into_immutable is the
\* only step from Live to Consumed and yields a live CFData at the same time,
\* Consumed is terminal, and no call goes through a handle that is Consumed.
C4_LiveConsumed == []C4_NoCallThroughConsumed /\ [][C4_Step]_vars
C4_Witness ==
    /\ \E h \in Handles : hs[h].st = "Consumed" /\ hs[h].kind = "CFMutableData"
    /\ last = "clone"

\* The conversion step, and every later step of a converted view.
C5_Step ==
    /\ \A h \in Handles :
          hs[h].st = "Live" /\ hs'[h].st = "Consumed" =>
              \E r \in Handles :
                  /\ hs[r].st = "Unborn" /\ hs'[r].st = "Live" /\ hs'[r].kind = "CFData"
                  /\ Content(objs', hs'[r].ref) = CFMutableData_bytes(objs, h)
                  /\ CFDataGetLength(objs', hs'[r].ref) = CFMutableData_len(objs, h)
    /\ \A i \in Handles :
          Live(i, "CFData") /\ objs[hs[i].ref].mutable /\ hs'[i].st = "Live" =>
              /\ CFData_bytes(objs', i) = CFData_bytes(objs, i)
              /\ CFData_len(objs', i) = CFData_len(objs, i)
\* C5: the CFData into_immutable returns has the bytes and the length the
\* CFMutableData had just before, and they stay the same for as long as that
\* CFData lives.
C5_ConvertedViewIsStable == [][C5_Step]_vars

\* The outcome of every possible append, and of two appends to an empty
\* unbounded buffer.
C6_Append ==
    \A h \in Handles :
        Live(h, "CFMutableData") =>
            /\ \A b \in Slices :
                  LET r == CFMutableData_extend_from_slice(objs, h, b)
                  IN ~r.fatal =>
                      /\ CFMutableData_bytes(r.heap, h) = CFMutableData_bytes(objs, h) \o b
                      /\ CFMutableData_len(r.heap, h) = CFMutableData_len(objs, h) + Len(b)
                      /\ \A o \in Objs \ {hs[h].ref} : r.heap[o] = objs[o]
            /\ Content(objs, hs[h].ref) = <<>> /\ objs[hs[h].ref].cap = 0 =>
                  \A b1 \in Slices, b2 \in Slices :
                      LET r1 == CFMutableData_extend_from_slice(objs, h, b1)
                          r2 == CFMutableData_extend_from_slice(r1.heap, h, b2)
                      IN /\ ~r1.fatal /\ ~r2.fatal
                         /\ CFMutableData_bytes(r2.heap, h) = b1 \o b2
                         /\ CFMutableData_len(r2.heap, h) = Len(b1) + Len(b2)
\* new() makes an empty unbounded buffer.
C6_NewIsEmpty ==
    last' = "new" /\ new =>
        Content(objs', NewObj) = <<>> /\ objs'[NewObj].cap = 0
\* C6: for every live CFMutableData with content c and every slice b, an
\* extend_from_slice(b) that returns leaves c ++ b in the buffer and the length
\* len(c) + len(b), the existing bytes unchanged; a buffer made by new()
\* starts empty, and two appends b1, b2 to it leave b1 ++ b2.
C6_AppendAtEnd == []C6_Append /\ [][C6_NewIsEmpty]_vars
C6_Witness ==
    /\ last = "extend_from_slice" /\ ~aborted
    /\ \E h \in Handles : Live(h, "CFMutableData")
                          /\ CFMutableData_bytes(objs, h) = <<0, 1>>

\* C7: for every live CFMutableData with content c and every n, a set_len(n)
\* that returns leaves length n: the first n bytes of c when n is smaller, c
\* followed by n - len(c) zero bytes when n is larger, c when n is its length.
C7_TruncateOrZeroFill ==
    \A h \in Handles, n \in 0..MaxLen :
        Live(h, "CFMutableData") =>
            LET r == CFMutableData_set_len(objs, h, n)
                c == CFMutableData_bytes(objs, h)
                d == CFMutableData_bytes(r.heap, h)
            IN ~r.fatal =>
                /\ CFMutableData_len(r.heap, h) = n
                /\ n < Len(c) => d = SubSeq(c, 1, n)
                /\ n > Len(c) => d = c \o Zeros(n - Len(c))
                /\ n = Len(c) => d = c
C7_Witness ==
    /\ last = "set_len" /\ ~aborted
    /\ \E h \in Handles : Live(h, "CFMutableData")
                          /\ CFMutableData_bytes(objs, h) = <<1, 0>>

\* An append is fatal exactly when it takes a bounded buffer beyond its bound.
C8_Fatal ==
    \A h \in Handles, b \in Slices :
        Live(h, "CFMutableData") =>
            LET n == objs[hs[h].ref].cap
            IN CFMutableData_extend_from_slice(objs, h, b).fatal
                   = (n > 0 /\ CFMutableData_len(objs, h) + Len(b) > n)
\* The bound is the one the constructor was given, and it never changes.
C8_Step ==
    /\ last' = "with_maximum_capacity" =>
          \A n \in Caps : with_maximum_capacity(n) => objs'[NewObj].cap = n
    /\ last' = "new" /\ new => objs'[NewObj].cap = 0
    /\ \A o \in Objs :
          objs[o].st = "alloc" /\ objs'[o].st = "alloc" => objs'[o].cap = objs[o].cap
    /\ last' = "extend_from_slice" /\ aborted' =>
          \E h \in Handles, b \in Slices :
              /\ extend_from_slice(h, b)
              /\ objs[hs[h].ref].cap > 0
              /\ CFMutableData_len(objs, h) + Len(b) > objs[hs[h].ref].cap
\* C8: with_maximum_capacity(n) bounds the buffer by n for its whole life and
\* new() leaves it unbounded; an append is fatal exactly when the buffer is
\* bounded (n > 0) and the append would take the length beyond n, so appends
\* up to exactly n succeed and unbounded buffers never hit the condition.
C8_FatalBeyondCapacity == []C8_Fatal /\ [][C8_Step]_vars
C8_Witness ==
    /\ aborted /\ last = "extend_from_slice"
    /\ \E h \in Handles : Live(h, "CFMutableData")
                          /\ objs[hs[h].ref].cap > 0
                          /\ CFMutableData_len(objs, h) = objs[hs[h].ref].cap

\* The from_buffer step, and every later step of an object it made.
C9_Step ==
    /\ last' = "from_buffer" =>
       \A b \in Slices :
          from_buffer(b) =>
              LET r == NewHandle
                  o == hs'[r].ref
              IN /\ hs'[r].st = "Live" /\ hs'[r].kind = "CFData"
                 /\ objs[o].st = "free"
                 /\ objs'[o].rc = 1
                 /\ Content(objs', o) = b
                 /\ CFDataGetLength(objs', o) = Len(b)
    /\ \A o \in Objs :
          objs[o].st = "alloc" /\ ~objs[o].mutable /\ objs'[o].st = "alloc" =>
              Content(objs', o) = Content(objs, o)
\* C9: from_buffer(b) yields a live CFData over a newly created object that
\* holds b, has length len(b) and one retain; the content of an object made
\* by from_buffer never changes while the object is allocated.
C9_FromBufferCopies == [][C9_Step]_vars
C9_Witness ==
    /\ last = "from_buffer"
    /\ \E h \in Handles : Live(h, "CFData") /\ ~objs[hs[h].ref].mutable
                          /\ CFData_bytes(objs, h) = <<1>>

\* The window every live handle gives in the current state.
C10_Window ==
    \A h \in Handles :
        /\ Live(h, "CFData") =>
              /\ CFData_len(objs, h) = Len(Content(objs, hs[h].ref))
              /\ Len(CFData_bytes(objs, h)) = CFData_len(objs, h)
              /\ CFData_bytes(objs, h) = Content(objs, hs[h].ref)
        /\ Live(h, "CFMutableData") =>
              /\ CFMutableData_len(objs, h) = Len(Content(objs, hs[h].ref))
              /\ Len(CFMutableData_bytes(objs, h)) = CFMutableData_len(objs, h)
              /\ CFMutableData_bytes(objs, h) = Content(objs, hs[h].ref)
              /\ Len(bytes_mut(objs, h)) = CFMutableData_len(objs, h)
              /\ bytes_mut(objs, h) = Content(objs, hs[h].ref)
\* A call of len, bytes or bytes_mut changes no object and no handle.
C10_ReadsChangeNothing ==
    last' \in {"len", "bytes", "bytes_mut"} => objs' = objs /\ hs' = hs
\* C10: through every live handle of either variant, bytes() (and bytes_mut()
\* on a CFMutableData) is a window of exactly len() bytes, len() is the
\* object's current length, and the window is the object's current content:
\* no byte past the current length is ever part of it; a call of len, bytes
\* or bytes_mut changes no object's bytes, length or retain count.
C10_WindowIsCurrentLength == []C10_Window /\ [][C10_ReadsChangeNothing]_vars
C10_Witness ==
    /\ last = "bytes_mut" /\ ~aborted
    /\ \E h \in Handles : Live(h, "CFMutableData") /\ bytes_mut(objs, h) = <<1, 0>>
====
